---- MODULE Spec2Model ----
(***************************************************************************)
(* Dynamic Context Pruning: the global fetch wrapper (interception         *)
(* gateway), the StateManager it reads, the idle event hook that starts    *)
(* the janitor, the wire-format descriptors' detect and replaceToolOutput, *)
(* the prune tool with its numbered listing and its system injection, the  *)
(* analysis strategies (deduplication, supersede-writes), the statistics   *)
(* of the StateManager, and the context memory server's store_summary and  *)
(* get_summary.                                                            *)
(***************************************************************************)
EXTENDS Integers, Sequences, FiniteSets, TLC

VARIABLES
    stateManager,         \* StateManager.state : Map<sessionID, string[]> (read as a set)
    toolParametersCache,  \* Map<callID, {tool, parameters}>
    debug,                \* logger.enabled, fixed by the configuration
    req,                  \* the invocation of the wrapped fetch that is in progress; its
                          \* fields ever and stable record what the store held meanwhile
                          \* for the sessions the host listed: the ids some non-child
                          \* session held at some moment, and the <<session, id>> pairs
                          \* held from the call to the forward
    nFetch,               \* invocations of the wrapped fetch so far
    nSet,                 \* StateManager.set calls so far
    ev,                   \* the invocation of the event hook that is in progress
    janitor,              \* janitor.run promises, one per started analysis pass
    nEvent,               \* events delivered so far
    fmt,                  \* a message array handed to a format descriptor
    det,                  \* a request body handed to the descriptors' detect
    conv,                 \* the parts of the session's messages, as the host returns them
    state,                \* SessionState of the prune tool: prune.toolIds, stats, nudgeCounter
    numericIdMap,         \* the session's numeric aliases: call id -> number, and the next number
    prunable,             \* the result of the last buildPrunableToolsList
    inv,                  \* the invocations of the prune tool's execute that can overlap
    nPrune,               \* invocations of execute so far
    hist,                 \* a conversation handed to analyzeConversation
    an,                   \* the session state and the result of analyzeConversation
    stats,                \* StateManager.stats : Map<sessionID, SessionStats>
    addCalls,             \* the invocations of StateManager.addStats that can overlap
    nAdd,                 \* invocations of addStats so far
    sumDone,              \* per session, the sums of the arguments of the addStats
                          \* calls that have returned
    rd,                   \* the last read of the StateManager and what it returned
    ins,                  \* the last request body the prunable-tools list was injected into
    files,                \* sessions/<id>/summaries/<summary_id>.json : path -> content
    meta,                 \* sessions/<id>/metadata.json : session -> parsed content
    now,                  \* the clock new Date() reads, in milliseconds
    storeCalls,           \* the invocations of storeSummary that can overlap
    nStore,               \* store_summary calls so far
    returned,             \* what the store_summary calls that succeeded were given
                          \* and returned
    answer                \* the last get_summary call and its answer

vars ==
    <<stateManager, toolParametersCache, debug, req, nFetch, nSet, ev, janitor, nEvent, fmt,
      det, conv, state, numericIdMap, prunable, inv, nPrune, hist, an,
      stats, addCalls, nAdd, sumDone, rd, ins,
      files, meta, now, storeCalls, nStore, returned, answer>>

pruneVars == <<conv, state, numericIdMap, prunable, inv, nPrune>>
analyzeVars == <<hist, an>>
memoryVars == <<files, meta, now, storeCalls, nStore, returned, answer>>
restVars == <<stats, addCalls, nAdd, sumDone, rd, ins, memoryVars>>
laterVars == <<det, pruneVars, analyzeVars, restVars>>

gatewayVars == <<stateManager, toolParametersCache, req, nFetch, nSet>>
eventVars == <<ev, janitor, nEvent>>

----------------------------------------------------------------------------
\* Bounds of the model

MaxFetch == 2
MaxSet == 2
MaxEvent == 2
MaxApply == 2
MaxParts == 2
MaxPrune == 2
MaxHist == 3
MaxAdd == 2
MaxStore == 2
MaxClock == 1

----------------------------------------------------------------------------
\* Strings and call identifiers. An identifier is a sequence of characters so
\* that String.prototype.toLowerCase is computed, not assumed.

LowerChar(c) ==
    CASE c = "A" -> "a"
      [] c = "B" -> "b"
      [] c = "C" -> "c"
      [] c = "R" -> "r"
      [] c = "W" -> "w"
      [] OTHER -> c

ToLowerCase(s) == [i \in DOMAIN s |-> LowerChar(s[i])]

\* m.tool_call_id when the message has none (undefined)
NoId == <<>>

IdAbC == <<"A", "b", "C", "1", "2", "3">>
Idabc == <<"a", "b", "c", "1", "2", "3">>
IdR1 == <<"R", "1">>

\* identifiers a caller may hand to StateManager.set
StoreIds == {IdAbC, Idabc}

Marker == "[Output removed to save context - information superseded or no longer needed]"

----------------------------------------------------------------------------
\* The host: ctx.client.session. Sessions and their parentID.

NoParent == "none"

SessionList == <<"s1", "c1", "s2">>

Sessions == {SessionList[i] : i \in DOMAIN SessionList}

ParentID(s) == IF s = "c1" THEN "s1" ELSE NoParent

----------------------------------------------------------------------------
\* Request bodies. A body string is JSON text: the value it encodes plus its
\* insignificant white space (ws). JSON.parse drops the white space and
\* JSON.stringify writes none, so stringify(parse(b)) = b only for ws = 0.

ToolMsg(id, c) == [role |-> "tool", tool_call_id |-> id, content |-> c, tool_calls |-> <<>>]
UserMsg(c) == [role |-> "user", tool_call_id |-> NoId, content |-> c, tool_calls |-> <<>>]
AsstMsg(calls) == [role |-> "assistant", tool_call_id |-> NoId, content |-> "", tool_calls |-> calls]
\* a null element of body.messages: reading message.role throws a TypeError
NullMsg == [role |-> "<null>", tool_call_id |-> NoId, content |-> "", tool_calls |-> <<>>]

ArgsOk == "{\"filePath\":\"a.txt\"}"
ArgsBad == "{\"filePath\":"

ToolCall(id, args) == [id |-> id, hasFunction |-> TRUE, name |-> "read", arguments |-> args]

JsonNull == [isNull |-> TRUE, hasMessages |-> FALSE, messages |-> <<>>, rest |-> ""]
JsonChat(msgs) == [isNull |-> FALSE, hasMessages |-> TRUE, messages |-> msgs, rest |-> "model"]
\* a body with no messages array (for instance the Responses API's input list)
JsonOther == [isNull |-> FALSE, hasMessages |-> FALSE, messages |-> <<>>, rest |-> "input"]

Text(ws, val) == [kind |-> "json", ws |-> ws, val |-> val]
NotAString == [kind |-> "nonstring", ws |-> 0, val |-> JsonNull]
Garbage == [kind |-> "garbage", ws |-> 0, val |-> JsonNull]
NoBody == [kind |-> "unsent", ws |-> 0, val |-> JsonNull]

JSONParseThrows(b) == b.kind # "json"
JSONParse(b) == b.val
JSONStringify(v) == Text(0, v)

ChatA ==
    <<AsstMsg(<<ToolCall(Idabc, ArgsOk), ToolCall(IdR1, ArgsBad), ToolCall(IdAbC, ArgsOk)>>),
      ToolMsg(Idabc, "out-w"), ToolMsg(IdR1, "out-r")>>
ChatB ==
    <<UserMsg("hi"), ToolMsg(IdAbC, "out-w"), ToolMsg(NoId, "out-x"), ToolMsg(Idabc, "out-y")>>
ChatC == <<UserMsg("title?")>>
ChatD == <<AsstMsg(<<ToolCall(IdR1, ArgsBad)>>), NullMsg, ToolMsg(Idabc, "out-w")>>

Bodies ==
    { NotAString, Garbage, Text(0, JsonNull), Text(1, JsonOther), Text(0, JsonOther),
      Text(1, JsonChat(ChatA)), Text(0, JsonChat(ChatB)), Text(1, JsonChat(ChatC)),
      Text(0, JsonChat(ChatD)) }

----------------------------------------------------------------------------
\* StateManager (lib/state.ts)

StateGetEmpty(sessionID) == {}

GetIn(store, sessionID) ==
    IF sessionID \in DOMAIN store THEN store[sessionID] ELSE {}

\* StateManager.get: this.state.get(sessionID) ?? []
StateGet(sessionID) == GetIn(stateManager, sessionID)

StateSetValue(sessionID, prunedIds) ==
    [s \in DOMAIN stateManager \cup {sessionID} |->
        IF s = sessionID THEN prunedIds ELSE stateManager[s]]

NonChildSessions == {x \in Sessions : ParentID(x) = NoParent}

\* union of the stored identifiers of the listed sessions without parent link
UnionIn(store) == UNION {GetIn(store, s) : s \in NonChildSessions}

\* the pairs <<session, id>> of the identifiers stored for non-child sessions
PairsIn(store) == {p \in NonChildSessions \X StoreIds : p[2] \in GetIn(store, p[1])}

----------------------------------------------------------------------------
\* cacheToolParameters

CacheSet(cache, id, entry) ==
    {e \in cache : e.id # id} \cup {[id |-> id, tool |-> entry.tool, parameters |-> entry.parameters]}

RECURSIVE CacheToolCallsAbortOnError(_, _)
CacheToolCallsAbortOnError(calls, cache) ==
    IF calls = <<>> THEN cache
    ELSE LET tc == Head(calls) IN
         IF tc.id = NoId \/ ~tc.hasFunction THEN CacheToolCallsAbortOnError(Tail(calls), cache)
         ELSE IF tc.arguments = ArgsBad THEN cache
         ELSE CacheToolCallsAbortOnError(Tail(calls),
                  CacheSet(cache, tc.id, [tool |-> tc.name, parameters |-> "filePath=a.txt"]))

RECURSIVE CacheToolCalls(_, _)
CacheToolCalls(calls, cache) ==
    IF calls = <<>> THEN cache
    ELSE LET tc == Head(calls) IN
         IF tc.id = NoId \/ ~tc.hasFunction THEN CacheToolCalls(Tail(calls), cache)
         ELSE IF tc.arguments = ArgsBad THEN CacheToolCalls(Tail(calls), cache)
         ELSE CacheToolCalls(Tail(calls),
                  CacheSet(cache, tc.id, [tool |-> tc.name, parameters |-> "filePath=a.txt"]))

\* the result is the cache and whether the scan threw
RECURSIVE CacheToolParameters(_, _)
CacheToolParameters(messages, cache) ==
    IF messages = <<>> THEN [cache |-> cache, threw |-> FALSE]
    ELSE LET m == Head(messages) IN
         IF m = NullMsg THEN [cache |-> cache, threw |-> TRUE]
         ELSE IF m.role # "assistant" THEN CacheToolParameters(Tail(messages), cache)
         ELSE CacheToolParameters(Tail(messages), CacheToolCalls(m.tool_calls, cache))

----------------------------------------------------------------------------
\* The global fetch wrapper

IdleReq ==
    [ pc |-> "idle", body |-> NoBody, msgs |-> <<>>, modified |-> FALSE,
      todo |-> <<>>, got |-> {}, all |-> {},
      sent |-> NoBody, calls |-> 0, raised |-> FALSE, outcome |-> "none",
      listed |-> TRUE, ever |-> {}, stable |-> {} ]

\* return originalGlobalFetch(input, init)
Forward(r, b, outcome) ==
    [r EXCEPT !.pc = "done", !.sent = b, !.calls = @ + 1, !.outcome = outcome]

CatchRethrow(r) == [r EXCEPT !.pc = "done", !.raised = TRUE, !.outcome = "failopen"]

\* catch (e) { } followed by the call of the original fetch: init.body is untouched
CatchAndForward(r) == Forward(r, r.body, "failopen")

NonChildKeepAll(list) == list

\* the sessions of the listing that pass `if (session.parentID) continue`
NonChild(list) == SelectSeq(list, LAMBDA s : ParentID(s) = NoParent)

IsMatchNoLower(m, all) == m.role = "tool" /\ m.tool_call_id \in all

\* m.role === 'tool' && allPrunedIds.has(m.tool_call_id?.toLowerCase())
IsMatch(m, all) ==
    m.role = "tool" /\ m.tool_call_id # NoId /\ ToLowerCase(m.tool_call_id) \in all

ReplaceDropFields(m) == [m EXCEPT !.content = Marker, !.tool_call_id = NoId]

\* { ...m, content: '[Output removed ...]' }
Replace(m) == [m EXCEPT !.content = Marker]

MapMessagesFirstMatch(msgs, all) ==
    [i \in DOMAIN msgs |->
        IF IsMatch(msgs[i], all) /\ \A j \in 1..(i - 1) : ~IsMatch(msgs[j], all)
        THEN Replace(msgs[i]) ELSE msgs[i]]

\* body.messages.map(...)
MapMessages(msgs, all) ==
    [i \in DOMAIN msgs |-> IF IsMatch(msgs[i], all) THEN Replace(msgs[i]) ELSE msgs[i]]

ReplacedCount(msgs, all) == Cardinality({i \in DOMAIN msgs : IsMatch(msgs[i], all)})

PassThroughReserialized(r) == Forward(r, JSONStringify(JSONParse(r.body)), "passthrough")

\* the body has no messages array: nothing is done and the request is forwarded
PassThrough(r) == Forward(r, r.body, "passthrough")

\* the code after the loop over the sessions, up to its next await or to the forward
AfterCollect(r) ==
    LET toolMessages == SelectSeq(r.msgs, LAMBDA m : m.role = "tool") IN
    IF Len(toolMessages) > 0 /\ r.all # {} THEN
        LET mapped == [r EXCEPT !.msgs = MapMessages(r.msgs, r.all)] IN
        IF ReplacedCount(r.msgs, r.all) > 0
            THEN [mapped EXCEPT !.pc = "save", !.modified = TRUE]
        ELSE IF debug THEN [mapped EXCEPT !.pc = "save"]
        ELSE Forward(mapped, r.body, "ok")
    ELSE IF debug THEN [r EXCEPT !.pc = "save"]
    ELSE Forward(r, r.body, "ok")

\* fetch(input, init) up to `await ctx.client.session.list()`
FetchCall(b) ==
    /\ req.pc \in {"idle", "done"}
    /\ nFetch < MaxFetch
    /\ nFetch' = nFetch + 1
    /\ LET r == [IdleReq EXCEPT !.body = b, !.ever = UnionIn(stateManager),
                                !.stable = PairsIn(stateManager)]
       IN  IF b.kind = "nonstring" THEN
               /\ req' = PassThrough(r)
               /\ UNCHANGED toolParametersCache
           ELSE IF JSONParseThrows(b) \/ JSONParse(b).isNull THEN
               /\ req' = CatchAndForward(r)
               /\ UNCHANGED toolParametersCache
           ELSE IF ~JSONParse(b).hasMessages THEN
               /\ req' = PassThrough(r)
               /\ UNCHANGED toolParametersCache
           ELSE LET c == CacheToolParameters(JSONParse(b).messages, toolParametersCache) IN
               /\ toolParametersCache' = c.cache
               /\ req' = IF c.threw THEN CatchAndForward(r)
                         ELSE [r EXCEPT !.pc = "list", !.msgs = JSONParse(b).messages]
    /\ UNCHANGED <<stateManager, nSet, debug, eventVars, fmt, laterVars>>

\* session.list() settles; the loop runs up to its first `await stateManager.get`
FetchListed(result) ==
    /\ req.pc = "list"
    /\ req' = IF result = "fail" THEN CatchAndForward(req)
              ELSE IF result = "nodata"
                  \* allSessions.data is missing: no session is known to this request
                  THEN AfterCollect([req EXCEPT !.ever = {}, !.stable = {}, !.listed = FALSE])
              ELSE IF NonChild(SessionList) = <<>> THEN AfterCollect(req)
              ELSE [req EXCEPT !.pc = "collect", !.todo = NonChild(SessionList),
                               !.got = StateGet(Head(NonChild(SessionList)))]
    /\ UNCHANGED <<stateManager, toolParametersCache, nFetch, nSet, debug, eventVars, fmt, laterVars>>

\* one `await stateManager.get(session.id)` resumes: its ids join allPrunedIds
FetchCollect ==
    /\ req.pc = "collect"
    /\ LET r == [req EXCEPT !.all = @ \cup req.got, !.todo = Tail(@), !.got = {}] IN
       req' = IF r.todo = <<>> THEN AfterCollect(r)
              ELSE [r EXCEPT !.got = StateGet(Head(r.todo))]
    /\ UNCHANGED <<stateManager, toolParametersCache, nFetch, nSet, debug, eventVars, fmt, laterVars>>

\* init.body = JSON.stringify(body), body.messages being the mapped array
RedactedBody(b, msgs) == JSONStringify([JSONParse(b) EXCEPT !.messages = msgs])

\* logger.saveWrappedContext settles
FetchSaved(ok) ==
    /\ req.pc = "save"
    /\ req' = IF ~ok THEN CatchAndForward(req)
              ELSE IF req.modified
                  THEN Forward(req, RedactedBody(req.body, req.msgs), "ok")
              ELSE Forward(req, req.body, "ok")
    /\ UNCHANGED <<stateManager, toolParametersCache, nFetch, nSet, debug, eventVars, fmt, laterVars>>

\* StateManager.set(sessionID, prunedIds)
StateManagerSet(sessionID, prunedIds) ==
    /\ nSet < MaxSet
    /\ nSet' = nSet + 1
    /\ stateManager' = StateSetValue(sessionID, prunedIds)
    /\ req' = IF req.pc \in {"list", "collect", "save"}
              THEN [req EXCEPT !.ever = IF req.listed THEN @ \cup UnionIn(stateManager') ELSE @,
                               !.stable = @ \cap PairsIn(stateManager')]
              ELSE req
    /\ UNCHANGED <<toolParametersCache, nFetch, debug, eventVars, fmt, laterVars>>

----------------------------------------------------------------------------
\* The event hook and the janitor it starts

IdleEv == [pc |-> "idle", session |-> "none", query |-> "none", raised |-> FALSE, run |-> 0]

IsSubagentSessionFailClosed(sessionID, result) ==
    result = "fail" \/ ParentID(sessionID) # NoParent

IsSubagentSessionNever(sessionID, result) == FALSE

\* isSubagentSession: true when the host reports a parentID, false when it
\* reports none and false when the query throws
IsSubagentSession(sessionID, result) ==
    IF result = "fail" THEN FALSE ELSE ParentID(sessionID) # NoParent

\* janitor.run(...).catch(err => logger.error(...)): the rejection ends in the log
OnJanitorReject(e) == e

StartJanitorAwaited(e, runs) == [e EXCEPT !.pc = "await", !.run = Len(runs) + 1]

\* janitor.run(sessionID) is called and not awaited: the hook returns
StartJanitor(e, runs) == [e EXCEPT !.pc = "done", !.run = Len(runs) + 1]

\* event({ event }) with a session.status idle event, up to `await isSubagentSession`
EventIdle(sessionID) ==
    /\ ev.pc \in {"idle", "done"}
    /\ nEvent < MaxEvent
    /\ nEvent' = nEvent + 1
    /\ ev' = [IdleEv EXCEPT !.pc = "check", !.session = sessionID]
    /\ UNCHANGED <<janitor, gatewayVars, debug, fmt, laterVars>>

\* event({ event }) with any other event: nothing is done
EventOther ==
    /\ ev.pc \in {"idle", "done"}
    /\ nEvent < MaxEvent
    /\ nEvent' = nEvent + 1
    /\ ev' = [IdleEv EXCEPT !.pc = "done"]
    /\ UNCHANGED <<janitor, gatewayVars, debug, fmt, laterVars>>

\* client.session.get settles and the hook runs to its end
EventChecked(result) ==
    /\ ev.pc = "check"
    /\ LET e == [ev EXCEPT !.query = result] IN
       IF IsSubagentSession(ev.session, result)
       THEN /\ ev' = [e EXCEPT !.pc = "done"]
            /\ UNCHANGED janitor
       ELSE /\ ev' = StartJanitor(e, janitor)
            /\ janitor' = Append(janitor, [session |-> ev.session, query |-> result,
                                             status |-> "running"])
    /\ UNCHANGED <<nEvent, gatewayVars, debug, fmt, laterVars>>

\* a janitor.run promise resolves
JanitorResolve(i) ==
    /\ i \in DOMAIN janitor
    /\ janitor[i].status = "running"
    /\ janitor' = [janitor EXCEPT ![i].status = "resolved"]
    /\ UNCHANGED <<ev, nEvent, gatewayVars, debug, fmt, laterVars>>

\* a janitor.run promise rejects
JanitorReject(i) ==
    /\ i \in DOMAIN janitor
    /\ janitor[i].status = "running"
    /\ janitor' = [janitor EXCEPT ![i].status = "logged"]
    /\ ev' = OnJanitorReject(ev)
    /\ UNCHANGED <<nEvent, gatewayVars, debug, fmt, laterVars>>

----------------------------------------------------------------------------
\* The wire-format descriptors: replaceToolOutput

\* Anthropic: tool_result blocks with tool_use_id inside user messages
ABlock(type, id, c) == [type |-> type, tool_use_id |-> id, content |-> c]
AMsg(role, isArray, blocks) == [role |-> role, contentIsArray |-> isArray, content |-> blocks]

AnthropicReplaceBlock(block, toolIdLower, prunedMessage) ==
    IF /\ block.type = "tool_result"
       /\ block.tool_use_id # NoId
       /\ ToLowerCase(block.tool_use_id) = toolIdLower
    THEN [block EXCEPT !.content = prunedMessage]
    ELSE block

AnthropicReplaceToolOutput(data, toolId, prunedMessage) ==
    [i \in DOMAIN data |->
        IF data[i].role = "user" /\ data[i].contentIsArray
        THEN [data[i] EXCEPT !.content =
                 [j \in DOMAIN @ |-> AnthropicReplaceBlock(@[j], ToLowerCase(toolId), prunedMessage)]]
        ELSE data[i]]

\* Bedrock: toolResult blocks with toolUseId inside user messages
BBlock(has, id, c) == [hasToolResult |-> has, toolResult |-> [toolUseId |-> id, content |-> c]]

BedrockReplaceBlockAppend(block, toolIdLower, prunedMessage) ==
    IF /\ block.hasToolResult
       /\ block.toolResult.toolUseId # NoId
       /\ ToLowerCase(block.toolResult.toolUseId) = toolIdLower
    THEN [block EXCEPT !.toolResult.content = Append(@, [text |-> prunedMessage])]
    ELSE block

BedrockReplaceBlock(block, toolIdLower, prunedMessage) ==
    IF /\ block.hasToolResult
       /\ block.toolResult.toolUseId # NoId
       /\ ToLowerCase(block.toolResult.toolUseId) = toolIdLower
    THEN [block EXCEPT !.toolResult.content = <<[text |-> prunedMessage]>>]
    ELSE block

BedrockReplaceToolOutput(data, toolId, prunedMessage) ==
    [i \in DOMAIN data |->
        IF data[i].role = "user" /\ data[i].contentIsArray
        THEN [data[i] EXCEPT !.content =
                 [j \in DOMAIN @ |-> BedrockReplaceBlock(@[j], ToLowerCase(toolId), prunedMessage)]]
        ELSE data[i]]

\* OpenAI Responses: function_call_output items carrying call_id
OItem(type, id, out) == [type |-> type, call_id |-> id, output |-> out]

OpenaiReplaceToolOutput(data, toolId, prunedMessage) ==
    [i \in DOMAIN data |->
        IF /\ data[i].type = "function_call_output"
           /\ data[i].call_id # NoId
           /\ ToLowerCase(data[i].call_id) = ToLowerCase(toolId)
        THEN [data[i] EXCEPT !.output = prunedMessage]
        ELSE data[i]]

\* what one interception that succeeds forwards for body b when the union is `all`
InterceptBody(b, all) ==
    IF ReplacedCount(JSONParse(b).messages, all) > 0
    THEN RedactedBody(b, MapMessages(JSONParse(b).messages, all))
    ELSE b

ReplaceIn(format, data, toolId) ==
    CASE format = "anthropic" -> AnthropicReplaceToolOutput(data, toolId, Marker)
      [] format = "bedrock" -> BedrockReplaceToolOutput(data, toolId, Marker)
      [] format = "openai-responses" -> OpenaiReplaceToolOutput(data, toolId, Marker)
      [] format = "chat" -> InterceptBody(data, {toolId})

AnthropicInputs ==
    { <<AMsg("user", TRUE, <<ABlock("tool_result", Idabc, "out-w"), ABlock("tool_result", IdR1, "out-r")>>)>>,
      <<AMsg("assistant", TRUE, <<ABlock("tool_use", Idabc, "")>>),
        AMsg("user", TRUE, <<ABlock("tool_result", IdAbC, "out-w"), ABlock("text", NoId, "hi")>>)>>,
      <<AMsg("user", FALSE, <<>>), AMsg("user", TRUE, <<ABlock("tool_result", Idabc, Marker)>>)>>,
      <<AMsg("user", TRUE, <<ABlock("tool_result", Idabc, "out-1")>>),
        AMsg("user", TRUE, <<ABlock("tool_result", Idabc, "out-2"), ABlock("tool_result", NoId, "x")>>)>> }

BedrockInputs ==
    { <<AMsg("user", TRUE, <<BBlock(TRUE, Idabc, <<[text |-> "out-w"]>>), BBlock(TRUE, IdR1, <<[text |-> "out-r"]>>)>>)>>,
      <<AMsg("assistant", TRUE, <<BBlock(FALSE, NoId, <<>>)>>),
        AMsg("user", TRUE, <<BBlock(TRUE, IdAbC, <<[text |-> "a"], [text |-> "b"]>>)>>)>>,
      <<AMsg("user", FALSE, <<>>), AMsg("user", TRUE, <<BBlock(TRUE, Idabc, <<[text |-> Marker]>>)>>)>>,
      <<AMsg("user", TRUE, <<BBlock(TRUE, Idabc, <<>>), BBlock(TRUE, NoId, <<[text |-> "x"]>>)>>)>> }

OpenaiInputs ==
    { <<OItem("function_call", Idabc, ""), OItem("function_call_output", Idabc, "out-w"),
        OItem("function_call_output", IdR1, "out-r")>>,
      <<OItem("message", NoId, "hi"), OItem("function_call_output", IdAbC, "out-w")>>,
      <<OItem("function_call_output", Idabc, Marker), OItem("function_call_output", NoId, "x")>>,
      <<OItem("function_call_output", Idabc, "out-1"), OItem("function_call_output", IdAbC, "out-2")>> }

ChatInputs ==
    { Text(1, JsonChat(ChatA)), Text(0, JsonChat(ChatA)), Text(1, JsonChat(ChatB)),
      Text(1, JsonChat(ChatC)) }

ToolIds == {IdAbC, Idabc, IdR1}

IdleFmt == [format |-> "none", orig |-> <<>>, data |-> <<>>, toolId |-> NoId, first |-> <<>>, times |-> 0]

\* a message array (for "chat": a request body) and a call identifier are given
FmtLoad(format, data, toolId) ==
    /\ fmt' = [format |-> format, orig |-> data, data |-> data, toolId |-> toolId,
               first |-> data, times |-> 0]
    /\ UNCHANGED <<gatewayVars, eventVars, debug, laterVars>>

\* replaceToolOutput(data, toolId, prunedMessage) is applied to the array once more
FmtReplace ==
    /\ fmt.format # "none"
    /\ fmt.times < MaxApply
    /\ LET d == ReplaceIn(fmt.format, fmt.data, fmt.toolId) IN
       fmt' = [fmt EXCEPT !.data = d, !.times = @ + 1,
                          !.first = IF fmt.times = 0 THEN d ELSE @]
    /\ UNCHANGED <<gatewayVars, eventVars, debug, laterVars>>

----------------------------------------------------------------------------
\* Format detection (lib/fetch-wrapper/formats): detect(body) of the three
\* descriptors. A body is described by what the detect functions look at:
\* the kind of value its system, messages and input fields hold and whether
\* inferenceConfig is defined.

DetectBodies ==
    [system : {"undefined", "null", "string", "array"},
     inferenceConfig : BOOLEAN,
     messages : {"undefined", "string", "array"},
     input : {"undefined", "string", "array"}]

\* Array.isArray(v)
IsArray(kind) == kind = "array"

\* body.system !== undefined && Array.isArray(body.messages)
AnthropicDetect(body) == body.system # "undefined" /\ IsArray(body.messages)

\* Array.isArray(body.system) && body.inferenceConfig !== undefined && Array.isArray(body.messages)
BedrockDetect(body) ==
    IsArray(body.system) /\ body.inferenceConfig /\ IsArray(body.messages)

\* body.input && Array.isArray(body.input)
OpenaiResponsesDetect(body) == body.input # "undefined" /\ IsArray(body.input)

\* the names of the descriptors whose detect returns true for the body
Claiming(body) ==
    (IF AnthropicDetect(body) THEN {"anthropic"} ELSE {})
    \cup (IF BedrockDetect(body) THEN {"bedrock"} ELSE {})
    \cup (IF OpenaiResponsesDetect(body) THEN {"openai-responses"} ELSE {})

IdleDet ==
    [pc |-> "idle",
     body |-> [system |-> "undefined", inferenceConfig |-> FALSE,
               messages |-> "undefined", input |-> "undefined"],
     claimed |-> {}]

\* a request body arrives
DetectLoad(body) ==
    /\ det' = [pc |-> "loaded", body |-> body, claimed |-> {}]
    /\ UNCHANGED <<gatewayVars, eventVars, debug, fmt, restVars, pruneVars, analyzeVars>>

\* every descriptor's detect is applied to it
DetectRun ==
    /\ det.pc = "loaded"
    /\ det' = [det EXCEPT !.pc = "detected", !.claimed = Claiming(det.body)]
    /\ UNCHANGED <<gatewayVars, eventVars, debug, fmt, restVars, pruneVars, analyzeVars>>

----------------------------------------------------------------------------
\* The explicit prune tool (lib/strategies/prune-tool.ts), the id list it
\* resolves numeric ids against (lib/messages/utils) and the prunable-tools
\* listing (lib/fetch-wrapper/prunable-list.ts), for one session.

ToolSession == "s1"

\* config.strategies.pruneTool.protectedTools
ProtectedTools == {"task"}

\* the call ids the host gives to the conversation's parts, in creation order
CallIds == <<"call_a", "call_b", "call_c", "call_d", "call_e">>

NoCall == ""

\* a part of a message that records a tool call
ToolPart(id, tool) == [type |-> "tool", callID |-> id, tool |-> tool]

\* what the next tool part of the conversation can be: a call of a tool, whose
\* metadata did or did not reach state.toolParameters
PartKinds == [type : {"tool"}, tool : {"read", "task"}, cached : BOOLEAN]

\* toolParameters.get(id): the entries with that key (none or one)
MetadataOf(toolParameters, id) == {e \in toolParameters : e.id = id}

\* createSessionState; nudge is the value of the nudge counter
NewSessionState(nudge) ==
    [toolIds |-> <<>>, pruneTokenCounter |-> 0, totalPruneTokens |-> 0,
     nudgeCounter |-> nudge, toolParameters |-> {}]

\* buildToolIdList(messages)
BuildToolIdList(messages) ==
    LET kept == SelectSeq(messages,
                    LAMBDA part : part.type = "tool" /\ part.callID # NoCall /\ part.tool # "")
    IN  [i \in DOMAIN kept |-> kept[i].callID]

\* strings handed to the tool are sequences of characters, so that parseInt
\* is computed
Digits == <<"0", "1", "2", "3", "4", "5", "6", "7", "8", "9">>

NaN == [nan |-> TRUE, n |-> 0]
Number(n) == [nan |-> FALSE, n |-> n]

RECURSIVE TrimStart(_)
TrimStart(s) == IF s # <<>> /\ Head(s) = " " THEN TrimStart(Tail(s)) ELSE s

RECURSIVE DigitPrefix(_, _)
\* the value of the longest prefix of digits, or NaN when there is none
DigitPrefix(s, acc) ==
    IF s # <<>> /\ (\E d \in DOMAIN Digits : Digits[d] = Head(s))
    THEN LET value == (CHOOSE d \in DOMAIN Digits : Digits[d] = Head(s)) - 1
         IN  DigitPrefix(Tail(s), Number((IF acc.nan THEN 0 ELSE acc.n * 10) + value))
    ELSE acc

\* parseInt(id, 10): leading blanks and a sign are accepted, what follows the
\* digits is ignored
ParseInt(s) ==
    LET t == TrimStart(s)
        neg == t # <<>> /\ Head(t) = "-"
        body == IF t # <<>> /\ Head(t) \in {"-", "+"} THEN Tail(t) ELSE t
        v == DigitPrefix(body, NaN)
    IN  IF v.nan THEN NaN ELSE Number(IF neg THEN 0 - v.n ELSE v.n)

\* args.ids.slice(1).map(id => parseInt(id, 10)).filter(n => !isNaN(n))
NumericToolIds(ids) ==
    LET parsed == [i \in 1..(Len(ids) - 1) |-> ParseInt(ids[i + 1])]
        kept == SelectSeq(parsed, LAMBDA v : ~v.nan)
    IN  [i \in DOMAIN kept |-> kept[i].n]

Completion == <<"c", "o", "m", "p", "l", "e", "t", "i", "o", "n">>
Noise == <<"n", "o", "i", "s", "e">>
Consolidation == <<"c", "o", "n", "s", "o", "l", "i", "d", "a", "t", "i", "o", "n">>

\* validReasons
ValidReasons == {Completion, Noise, Consolidation}

RECURSIVE GetPruneToolIdsFromEnd(_, _, _, _)
GetPruneToolIdsFromEnd(numericToolIds, toolIdList, toolParameters, protectedTools) ==
    IF numericToolIds = <<>> THEN <<>>
    ELSE LET n == Head(numericToolIds)
             index == IF n < 0 THEN Len(toolIdList) + n ELSE n
             rest == GetPruneToolIdsFromEnd(Tail(numericToolIds), toolIdList,
                                            toolParameters, protectedTools)
         IN  IF index >= 0 /\ index < Len(toolIdList)
             THEN LET id == toolIdList[index + 1]
                  IN  IF \E e \in MetadataOf(toolParameters, id) : e.tool \in protectedTools
                      THEN rest
                      ELSE <<id>> \o rest
             ELSE rest

RECURSIVE GetPruneToolIds(_, _, _, _)
\* getPruneToolIds: the numbers are positions in toolIdList; a position is
\* skipped when it is out of range or when the cached metadata of its call
\* names a protected tool
GetPruneToolIds(numericToolIds, toolIdList, toolParameters, protectedTools) ==
    IF numericToolIds = <<>> THEN <<>>
    ELSE LET index == Head(numericToolIds)
             rest == GetPruneToolIds(Tail(numericToolIds), toolIdList,
                                     toolParameters, protectedTools)
         IN  IF index >= 0 /\ index < Len(toolIdList)
             THEN LET id == toolIdList[index + 1]
                      metadata == MetadataOf(toolParameters, id)
                  IN  IF \E e \in metadata : e.tool \in protectedTools
                      THEN rest
                      ELSE <<id>> \o rest
             ELSE rest

\* calculateTokensSaved(messages, pruneToolIds): every pruned output that is
\* found in the messages counts with its estimate
TokensPerOutput == 1
CalculateTokensSaved(messages, pruneToolIds) ==
    TokensPerOutput
    * Cardinality({i \in DOMAIN pruneToolIds :
                      \E j \in DOMAIN messages : messages[j].callID = pruneToolIds[i]})

\* state/id-mapping: the session's numeric aliases, given out from a fixed
\* first number on
FirstNumericId == 0

NewNumericIdMap(first) == [ids |-> {}, next |-> first]

\* getOrCreateNumericId(sessionId, actualId): the alias the call already has,
\* or the next unused number
GetOrCreateNumericId(map, sessionId, actualId) ==
    IF \E e \in map.ids : e.id = actualId
    THEN [map |-> map, numericId |-> (CHOOSE e \in map.ids : e.id = actualId).n]
    ELSE [map |-> [ids |-> map.ids \cup {[id |-> actualId, n |-> map.next]},
                   next |-> map.next + 1],
          numericId |-> map.next]

RECURSIVE BuildPrunableToolsListByPosition(_, _, _, _, _)
BuildPrunableToolsListByPosition(map, sessionId, unprunedToolCallIds, toolMetadata, protectedTools) ==
    IF unprunedToolCallIds = <<>> THEN [map |-> map, lines |-> <<>>]
    ELSE LET actualId == Head(unprunedToolCallIds)
             metadata == MetadataOf(toolMetadata, actualId)
             n == Len(unprunedToolCallIds)
             rest == BuildPrunableToolsListByPosition(map, sessionId,
                         Tail(unprunedToolCallIds), toolMetadata, protectedTools)
         IN  IF metadata = {} \/ (\E e \in metadata : e.tool \in protectedTools)
             THEN rest
             ELSE [map |-> [ids |-> {e \in rest.map.ids : e.id # actualId}
                                     \cup {[id |-> actualId, n |-> n]},
                            next |-> rest.map.next],
                   lines |-> <<[numericId |-> n,
                                tool |-> (CHOOSE e \in metadata : TRUE).tool]>> \o rest.lines]

RECURSIVE BuildPrunableToolsList(_, _, _, _, _)
\* buildPrunableToolsList: one line per id that has metadata and whose tool is
\* not protected, numbered by getOrCreateNumericId; map is the id mapping the
\* call reads and updates
BuildPrunableToolsList(map, sessionId, unprunedToolCallIds, toolMetadata, protectedTools) ==
    IF unprunedToolCallIds = <<>> THEN [map |-> map, lines |-> <<>>]
    ELSE LET actualId == Head(unprunedToolCallIds)
             metadata == MetadataOf(toolMetadata, actualId)
         IN  IF metadata = {} \/ (\E e \in metadata : e.tool \in protectedTools)
             THEN BuildPrunableToolsList(map, sessionId, Tail(unprunedToolCallIds),
                                         toolMetadata, protectedTools)
             ELSE LET got == GetOrCreateNumericId(map, sessionId, actualId)
                      rest == BuildPrunableToolsList(got.map, sessionId,
                                  Tail(unprunedToolCallIds), toolMetadata, protectedTools)
                  IN  [map |-> rest.map,
                       lines |-> <<[numericId |-> got.numericId,
                                    tool |-> (CHOOSE e \in metadata : TRUE).tool]>>
                                 \o rest.lines]

\* { list, numericIds } of the result: the list is empty when there is no line
PrunableListResult(lines) ==
    [list |-> lines, numericIds |-> [i \in DOMAIN lines |-> lines[i].numericId]]

\* the ids handed to the builder: the session's tool calls that are not pruned
UnprunedToolCallIds(messages, st) ==
    SelectSeq(BuildToolIdList(messages),
              LAMBDA id : \A k \in DOMAIN st.toolIds : st.toolIds[k] # id)

\* the conversation goes on: the host appends a part; a tool call's metadata
\* is recorded unless caching skipped it
ToolCallMade(kind) ==
    /\ Len(conv) < MaxParts
    /\ LET id == CallIds[Len(conv) + 1]
       IN  /\ conv' = Append(conv, ToolPart(id, kind.tool))
           /\ state' = IF kind.cached
                       THEN [state EXCEPT !.toolParameters =
                                 @ \cup {[id |-> id, tool |-> kind.tool]}]
                       ELSE state
    /\ UNCHANGED <<numericIdMap, prunable, inv, nPrune>>
    /\ UNCHANGED <<gatewayVars, eventVars, debug, fmt, restVars, det, analyzeVars>>

\* the prunable-tools list is built for an outgoing request
ListPrunable ==
    /\ LET r == BuildPrunableToolsList(numericIdMap, ToolSession,
                    UnprunedToolCallIds(conv, state), state.toolParameters, ProtectedTools)
       IN  /\ numericIdMap' = r.map
           /\ prunable' = PrunableListResult(r.lines)
    /\ UNCHANGED <<conv, state, inv, nPrune>>
    /\ UNCHANGED <<gatewayVars, eventVars, debug, fmt, restVars, det, analyzeVars>>

\* the arguments the tool is called with: args.ids may be missing
ArgsOf(ids) == [defined |-> TRUE, ids |-> ids]
ArgsUndefined == [defined |-> FALSE, ids |-> <<>>]

PruneArgs ==
    {ArgsOf(<<>>),
     ArgsOf(<<<<"0">>, <<"1">>>>),
     ArgsOf(<<Noise, <<"a", "b", "c">>>>),
     ArgsOf(<<Completion, <<"0">>>>),
     ArgsOf(<<Consolidation, <<"0">>, <<"1", "x">>>>),
     ArgsOf(<<Noise, <<"-", "1">>, <<"7">>>>)}

ValidateLenient(args) ==
    IF ~args.defined \/ Len(args.ids) = 0 THEN "No IDs provided"
    ELSE IF Head(args.ids) \notin ValidReasons THEN "No valid pruning reason found"
    ELSE "ok"

\* the three early returns of execute: the rejection message, or "ok"
Validate(args) ==
    IF ~args.defined \/ Len(args.ids) = 0 THEN "No IDs provided"
    ELSE IF Head(args.ids) \notin ValidReasons THEN "No valid pruning reason found"
    ELSE IF Len(NumericToolIds(args.ids)) = 0 THEN "No numeric IDs provided"
    ELSE "ok"

Rejections == {"No IDs provided", "No valid pruning reason found", "No numeric IDs provided"}

\* an invocation of execute: where it is, its arguments, what it parsed and
\* resolved, what it returned, and the saveSessionState promise it started
IdleInv ==
    [pc |-> "idle", args |-> ArgsUndefined, numericToolIds |-> <<>>, pruneToolIds |-> <<>>,
     result |-> "none", save |-> "none"]

\* two invocations of execute can overlap: the second slot holds the one
\* that is called while another is in progress
PruneSlots == {"first", "second"}

\* an invocation is in progress until it has returned and the save it started
\* has settled
InProgress(i) == inv[i].pc \in {"messages", "notify"} \/ inv[i].save = "pending"

\* execute is called: the arguments are validated, then the session is
\* initialized and the messages are requested from the host
PruneCall(i, args) ==
    /\ nPrune < MaxPrune
    /\ ~InProgress(i)
    /\ i = "second" => InProgress("first")
    /\ nPrune' = nPrune + 1
    /\ inv' = [inv EXCEPT ![i] =
                  IF Validate(args) # "ok"
                  THEN [IdleInv EXCEPT !.pc = "done", !.args = args, !.result = Validate(args)]
                  ELSE [IdleInv EXCEPT !.pc = "messages", !.args = args,
                                       !.numericToolIds = NumericToolIds(args.ids)]]
    /\ UNCHANGED <<conv, state, numericIdMap, prunable>>
    /\ UNCHANGED <<gatewayVars, eventVars, debug, fmt, restVars, det, analyzeVars>>

\* the host answers client.session.messages: the numeric ids are resolved,
\* the resolved ids are pushed to state.prune.toolIds, the token counter
\* grows, and the notification is sent; a failing request rejects execute
PruneMessages(i, ok) ==
    /\ inv[i].pc = "messages"
    /\ IF ~ok
       THEN /\ inv' = [inv EXCEPT ![i] = [@ EXCEPT !.pc = "done", !.result = "threw"]]
            /\ UNCHANGED state
       ELSE LET messages == conv
                toolIdList == BuildToolIdList(messages)
                pruneToolIds == GetPruneToolIds(inv[i].numericToolIds, toolIdList,
                                                state.toolParameters, ProtectedTools)
            IN  /\ state' = [state EXCEPT
                                !.toolIds = @ \o pruneToolIds,
                                !.pruneTokenCounter =
                                    @ + CalculateTokensSaved(messages, pruneToolIds)]
                /\ inv' = [inv EXCEPT ![i] =
                              [@ EXCEPT !.pc = "notify", !.pruneToolIds = pruneToolIds]]
    /\ UNCHANGED <<conv, numericIdMap, prunable, nPrune>>
    /\ UNCHANGED <<gatewayVars, eventVars, debug, fmt, restVars, det, analyzeVars>>

PruneNotifiedKeepsCounter(i, ok) ==
    /\ inv[i].pc = "notify"
    /\ IF ~ok
       THEN /\ inv' = [inv EXCEPT ![i] = [@ EXCEPT !.pc = "done", !.result = "threw"]]
            /\ UNCHANGED state
       ELSE /\ state' = [state EXCEPT
                            !.totalPruneTokens = @ + state.pruneTokenCounter,
                            !.nudgeCounter = 0]
            /\ inv' = [inv EXCEPT ![i] =
                          [@ EXCEPT !.pc = "done", !.result = "pruned", !.save = "pending"]]
    /\ UNCHANGED <<conv, numericIdMap, prunable, nPrune>>
    /\ UNCHANGED <<gatewayVars, eventVars, debug, fmt, restVars, det, analyzeVars>>

\* sendUnifiedNotification settles: the counters are folded and reset, the
\* state is saved without being awaited, and the result is returned
PruneNotified(i, ok) ==
    /\ inv[i].pc = "notify"
    /\ IF ~ok
       THEN /\ inv' = [inv EXCEPT ![i] = [@ EXCEPT !.pc = "done", !.result = "threw"]]
            /\ UNCHANGED state
       ELSE /\ state' = [state EXCEPT
                            !.totalPruneTokens = @ + state.pruneTokenCounter,
                            !.pruneTokenCounter = 0,
                            !.nudgeCounter = 0]
            /\ inv' = [inv EXCEPT ![i] =
                          [@ EXCEPT !.pc = "done", !.result = "pruned", !.save = "pending"]]
    /\ UNCHANGED <<conv, numericIdMap, prunable, nPrune>>
    /\ UNCHANGED <<gatewayVars, eventVars, debug, fmt, restVars, det, analyzeVars>>

SaveSettledRollsBack(i, ok) ==
    /\ inv[i].save = "pending"
    /\ inv' = [inv EXCEPT ![i] = [@ EXCEPT !.save = IF ok THEN "saved" ELSE "logged",
                                           !.result = IF ok THEN @ ELSE "threw"]]
    /\ state' = IF ok THEN state
                ELSE [state EXCEPT !.toolIds = SubSeq(@, 1, Len(@) - Len(inv[i].pruneToolIds))]
    /\ UNCHANGED <<conv, numericIdMap, prunable, nPrune>>
    /\ UNCHANGED <<gatewayVars, eventVars, debug, fmt, restVars, det, analyzeVars>>

\* the saveSessionState promise settles; a rejection is logged
SaveSettled(i, ok) ==
    /\ inv[i].save = "pending"
    /\ inv' = [inv EXCEPT ![i] = [@ EXCEPT !.save = IF ok THEN "saved" ELSE "logged"]]
    /\ UNCHANGED <<conv, state, numericIdMap, prunable, nPrune>>
    /\ UNCHANGED <<gatewayVars, eventVars, debug, fmt, restVars, det, analyzeVars>>

----------------------------------------------------------------------------
\* The pruning strategies as analyzeConversation (cli/analyze.ts) runs them.
\* A conversation is the sequence of its tool invocations; an invocation
\* has a tool, parameters, and the turn it was made in. Parameters are a
\* sequence of <<key, value>> pairs, in the key order the call was made with.

\* the configured protected-tool list of the strategies
StrategyProtectedTools == {"task"}

\* the most recent turns that are exempt from pruning
RecencyFloor == 1

ReadTools == {"read"}
WriteTools == {"write"}

\* the parameters of a call on a path, in one of two key orders
ParamsOf(path, swapped) ==
    IF swapped THEN <<<<"limit", "10">>, <<"filePath", path>>>>
    ELSE <<<<"filePath", path>>, <<"limit", "10">>>>

\* what the next invocation of the conversation can be
CallKinds ==
    [tool : {"read", "write"}, path : {"a", "b"}, swapped : BOOLEAN, newTurn : BOOLEAN]
    \cup [tool : {"task"}, path : {"a"}, swapped : BOOLEAN, newTurn : BOOLEAN]

\* parameter normalization: the pairs irrespective of their order
Normalize(parameters) == {parameters[k] : k \in DOMAIN parameters}

\* the path-like parameter of a call
PathOf(call) ==
    call.parameters[CHOOSE k \in DOMAIN call.parameters : call.parameters[k][1] = "filePath"][2]

\* the turn of the last invocation
LastTurn(messages) == IF messages = <<>> THEN 0 ELSE messages[Len(messages)].turn

\* the positions a strategy may propose: not a protected tool, not within the
\* most recent turns
Eligible(messages, protectedTools) ==
    {i \in DOMAIN messages :
        /\ messages[i].tool \notin protectedTools
        /\ messages[i].turn <= LastTurn(messages) - RecencyFloor}

DeduplicationKeepsFirst(messages, protectedTools) ==
    {messages[i].id : i \in
        {i \in Eligible(messages, protectedTools) :
            \E j \in DOMAIN messages :
                /\ j < i
                /\ messages[j].tool = messages[i].tool
                /\ Normalize(messages[j].parameters) = Normalize(messages[i].parameters)}}

\* deduplication: in every group of calls with the same tool and the same
\* normalized parameters, every member but the chronologically last
DeduplicationCandidates(messages, protectedTools) ==
    {messages[i].id : i \in
        {i \in Eligible(messages, protectedTools) :
            \E j \in DOMAIN messages :
                /\ j > i
                /\ messages[j].tool = messages[i].tool
                /\ Normalize(messages[j].parameters) = Normalize(messages[i].parameters)}}

SupersedeWritesAnyRead(messages, protectedTools) ==
    {messages[i].id : i \in
        {i \in Eligible(messages, protectedTools) :
            /\ messages[i].tool \in WriteTools
            /\ \E j \in DOMAIN messages :
                  /\ j # i
                  /\ messages[j].tool \in ReadTools
                  /\ PathOf(messages[j]) = PathOf(messages[i])}}

\* supersede-writes: every write that a later read of the same path follows
SupersedeWritesCandidates(messages, protectedTools) ==
    {messages[i].id : i \in
        {i \in Eligible(messages, protectedTools) :
            /\ messages[i].tool \in WriteTools
            /\ \E j \in DOMAIN messages :
                  /\ j > i
                  /\ messages[j].tool \in ReadTools
                  /\ PathOf(messages[j]) = PathOf(messages[i])}}

\* createSessionState, as analyzeConversation reads it
NewAnalysisState == [prunedToolIds |-> {}, tokensSaved |-> 0]

\* a strategy as analyzeConversation uses it: it is handed the session state,
\* its candidates are found in state.prunedToolIds and their tokens in
\* state.stats.tokensSaved afterwards, and it returns their count and tokens
RunStrategy(st, candidates) ==
    LET new == candidates \ st.prunedToolIds
    IN  [state |-> [prunedToolIds |-> st.prunedToolIds \cup candidates,
                    tokensSaved |-> st.tokensSaved + TokensPerOutput * Cardinality(new)],
         count |-> Cardinality(new),
         tokens |-> TokensPerOutput * Cardinality(new)]

IdleAn ==
    [pc |-> "idle", state |-> NewAnalysisState, deduplication |-> {}, supersedeWrites |-> {},
     pruneableOutputs |-> 0, estimatedTokenSavings |-> 0]

\* the conversation to analyze gets one more invocation
HistAppend(kind) ==
    /\ an.pc = "idle"
    /\ Len(hist) < MaxHist
    /\ hist' = Append(hist,
                  [id |-> CallIds[Len(hist) + 1],
                   tool |-> kind.tool,
                   parameters |-> ParamsOf(kind.path, kind.swapped),
                   turn |-> IF kind.newTurn \/ hist = <<>> THEN LastTurn(hist) + 1
                            ELSE LastTurn(hist)])
    /\ UNCHANGED an
    /\ UNCHANGED <<gatewayVars, eventVars, debug, fmt, restVars, det, pruneVars>>

\* analyzeConversation(messages): a new session state, deduplication, then
\* supersede-writes, then the result read from the state
AnalyzeConversation ==
    /\ an.pc = "idle"
    /\ LET dedup == DeduplicationCandidates(hist, StrategyProtectedTools)
           dedupResult == RunStrategy(NewAnalysisState, dedup)
           supersede == SupersedeWritesCandidates(hist, StrategyProtectedTools)
           supersedeResult == RunStrategy(dedupResult.state, supersede)
       IN  an' = [pc |-> "done",
                  state |-> supersedeResult.state,
                  deduplication |-> dedup,
                  supersedeWrites |-> supersede,
                  pruneableOutputs |-> Cardinality(supersedeResult.state.prunedToolIds),
                  estimatedTokenSavings |-> supersedeResult.state.tokensSaved]
    /\ UNCHANGED hist
    /\ UNCHANGED <<gatewayVars, eventVars, debug, fmt, restVars, det, pruneVars>>

----------------------------------------------------------------------------

\* the plugin after construction; nudge is the value the session's nudge
\* counter has reached
----------------------------------------------------------------------------
\* The system injection of the prunable-tools list (lib/fetch-wrapper/
\* prunable-list.ts) and the descriptors' injectSystemMessage. A string that
\* is built from pieces is the sequence of its pieces, the empty string the
\* empty sequence.

NudgeInstruction == "<instruction name=agent_nudge>"

BuildSystemInjectionNudgeAlways(prunableList, includeNudge) ==
    IF includeNudge THEN <<NudgeInstruction>> \o prunableList ELSE prunableList

\* buildSystemInjection(prunableList, includeNudge)
BuildSystemInjection(prunableList, includeNudge) ==
    IF prunableList = <<>> THEN <<>>
    ELSE IF includeNudge THEN <<NudgeInstruction>> \o prunableList
    ELSE prunableList

\* the fields of a request body the injection reads and writes: system is
\* undefined, a string, or an array of blocks; instructions is undefined or a
\* string
InjectBodies ==
    [system : {[kind |-> "undefined", value |-> <<>>],
               [kind |-> "string", value |-> <<"sys">>],
               [kind |-> "array", value |-> <<<<"sys">>>>]},
     instructions : {[kind |-> "undefined", value |-> <<>>],
                     [kind |-> "string", value |-> <<"be brief">>]}]

NoInjectBody ==
    [system |-> [kind |-> "undefined", value |-> <<>>],
     instructions |-> [kind |-> "undefined", value |-> <<>>]]

\* injectSystemMessage(body, injection) of a descriptor: the body afterwards
\* and the value returned
InjectSystemMessage(format, body, injection) ==
    IF injection = <<>> THEN [body |-> body, result |-> FALSE]
    ELSE LET blocks ==
                 IF body.system.kind = "array" THEN body.system.value
                 ELSE IF body.system.kind = "string" /\ format = "anthropic"
                      THEN <<body.system.value>>
                 ELSE <<>>
         IN  [body |->
                 IF format \in {"anthropic", "bedrock"}
                 THEN [body EXCEPT !.system =
                          [kind |-> "array", value |-> Append(blocks, injection)]]
                 ELSE [body EXCEPT !.instructions =
                          [kind |-> "string",
                           value |-> IF body.instructions.kind = "string"
                                        /\ body.instructions.value # <<>>
                                     THEN @.value \o <<"\n\n">> \o injection
                                     ELSE injection]],
              result |-> TRUE]

\* an outgoing request is prepared: the list of the session's unpruned calls
\* is built, the injection is built from the list, and the descriptor
\* injects it into the body
InjectPrunable(format, body, includeNudge) ==
    /\ LET r == BuildPrunableToolsList(numericIdMap, ToolSession,
                    UnprunedToolCallIds(conv, state), state.toolParameters, ProtectedTools)
           injection == BuildSystemInjection(PrunableListResult(r.lines).list, includeNudge)
           done == InjectSystemMessage(format, body, injection)
       IN  /\ numericIdMap' = r.map
           /\ prunable' = PrunableListResult(r.lines)
           /\ ins' = [format |-> format, nudge |-> includeNudge, orig |-> body,
                      body |-> done.body, injection |-> injection, result |-> done.result]
    /\ UNCHANGED <<conv, state, inv, nPrune>>
    /\ UNCHANGED <<gatewayVars, eventVars, debug, fmt, det, analyzeVars>>
    /\ UNCHANGED <<stats, addCalls, nAdd, sumDone, rd, memoryVars>>

----------------------------------------------------------------------------
\* The context memory server (memory/mcp-server/index.ts): store_summary and
\* get_summary over the files of a session. A summary is a JSON value; a file
\* holds its serialization.

\* `compact_${timestamp}` for the time the clock shows: the ISO timestamp has
\* millisecond resolution
SummaryId(time) == [prefix |-> "compact_", ms |-> time]

NoSummaryId == [prefix |-> "", ms |-> 0]

\* path.join(SESSIONS_DIR, sessionId, 'summaries', `${summaryId}.json`)
SummaryPath(sessionId, summaryId) == <<sessionId, summaryId>>

\* readJsonFile(filePath): the parsed content, or null for a missing file
ReadJsonFile(dir, filePath) ==
    IF filePath \in DOMAIN dir THEN JSONParse(dir[filePath]) ELSE JsonNull

\* writeJsonFile(filePath, data): the directory afterwards
WriteJsonFile(dir, filePath, data) ==
    [f \in DOMAIN dir \cup {filePath} |->
        IF f = filePath THEN JSONStringify(data) ELSE dir[f]]

\* getSummary(sessionId, summaryId)
GetSummary(sessionId, summaryId) ==
    ReadJsonFile(files, SummaryPath(sessionId, summaryId))

\* the summaries the calls are given
Summaries == {[executive |-> "A"], [executive |-> "B"]}

\* two invocations of storeSummary can overlap: the second slot holds the one
\* that is called while another is in progress
StoreSlots == {"first", "second"}

\* time passes
ClockTick ==
    /\ now < MaxClock
    /\ now' = now + 1
    /\ UNCHANGED <<files, meta, storeCalls, nStore, returned, answer>>
    /\ UNCHANGED <<gatewayVars, eventVars, debug, fmt, det, pruneVars, analyzeVars>>
    /\ UNCHANGED <<stats, addCalls, nAdd, sumDone, rd, ins>>

\* store_summary is called: the arguments are checked and the summaries
\* directory is made
StoreSummaryCall(i, sessionId, summary) ==
    /\ nStore < MaxStore
    /\ storeCalls[i].pc \in {"idle", "done", "failed"}
    /\ i = "second" => storeCalls["first"].pc \notin {"idle", "done", "failed"}
    /\ nStore' = nStore + 1
    /\ storeCalls' = [storeCalls EXCEPT ![i] =
                         [pc |-> "mkdir", sessionId |-> sessionId, summary |-> summary,
                          summaryId |-> NoSummaryId, metadata |-> JsonNull]]
    /\ UNCHANGED <<files, meta, now, returned, answer>>
    /\ UNCHANGED <<gatewayVars, eventVars, debug, fmt, det, pruneVars, analyzeVars>>
    /\ UNCHANGED <<stats, addCalls, nAdd, sumDone, rd, ins>>

\* ensureDir has settled: the id is generated from the clock and the summary
\* file is written; a failing write is answered with an error
StoreSummaryWrite(i, ok) ==
    /\ storeCalls[i].pc = "mkdir"
    /\ LET c == storeCalls[i]
           summaryId == SummaryId(now)
       IN  IF ok
           THEN /\ files' = WriteJsonFile(files, SummaryPath(c.sessionId, summaryId), c.summary)
                /\ storeCalls' = [storeCalls EXCEPT ![i] =
                                     [c EXCEPT !.pc = "written", !.summaryId = summaryId]]
           ELSE /\ storeCalls' = [storeCalls EXCEPT ![i] = [c EXCEPT !.pc = "failed"]]
                /\ UNCHANGED files
    /\ UNCHANGED <<meta, now, nStore, returned, answer>>
    /\ UNCHANGED <<gatewayVars, eventVars, debug, fmt, det, pruneVars, analyzeVars>>
    /\ UNCHANGED <<stats, addCalls, nAdd, sumDone, rd, ins>>

\* the session metadata is read; a missing file gives a fresh record with
\* total_compactions 0
StoreMetadataRead(i) ==
    /\ storeCalls[i].pc = "written"
    /\ LET c == storeCalls[i]
           metadata == ReadJsonFile(meta, c.sessionId)
       IN  storeCalls' = [storeCalls EXCEPT ![i] =
                             [c EXCEPT !.pc = "read",
                                       !.metadata =
                                           IF metadata = JsonNull
                                           THEN [session_id |-> c.sessionId,
                                                 total_compactions |-> 0]
                                           ELSE metadata]]
    /\ UNCHANGED <<files, meta, now, nStore, returned, answer>>
    /\ UNCHANGED <<gatewayVars, eventVars, debug, fmt, det, pruneVars, analyzeVars>>
    /\ UNCHANGED <<stats, addCalls, nAdd, sumDone, rd, ins>>

\* the metadata is written with total_compactions increased by one and the
\* call returns { success, summary_id, path }; a failing write is answered
\* with an error
StoreMetadataWrite(i, ok) ==
    /\ storeCalls[i].pc = "read"
    /\ LET c == storeCalls[i]
       IN  IF ok
           THEN /\ meta' = WriteJsonFile(meta, c.sessionId,
                                [c.metadata EXCEPT !.total_compactions = @ + 1])
                /\ storeCalls' = [storeCalls EXCEPT ![i] = [c EXCEPT !.pc = "done"]]
                /\ returned' = returned \cup {[session_id |-> c.sessionId,
                                                summary_id |-> c.summaryId,
                                                summary |-> c.summary]}
           ELSE /\ storeCalls' = [storeCalls EXCEPT ![i] = [c EXCEPT !.pc = "failed"]]
                /\ UNCHANGED <<meta, returned>>
    /\ UNCHANGED <<files, now, nStore, answer>>
    /\ UNCHANGED <<gatewayVars, eventVars, debug, fmt, det, pruneVars, analyzeVars>>
    /\ UNCHANGED <<stats, addCalls, nAdd, sumDone, rd, ins>>

\* get_summary is called with ids: the summary is read and serialized, or
\* the answer is the error "Summary not found"
HandleGetSummary(session_id, summary_id) ==
    /\ LET summary == GetSummary(session_id, summary_id)
       IN  answer' = [session_id |-> session_id, summary_id |-> summary_id,
                      isError |-> summary = JsonNull, summary |-> summary]
    /\ UNCHANGED <<files, meta, now, storeCalls, nStore, returned>>
    /\ UNCHANGED <<gatewayVars, eventVars, debug, fmt, det, pruneVars, analyzeVars>>
    /\ UNCHANGED <<stats, addCalls, nAdd, sumDone, rd, ins>>

----------------------------------------------------------------------------
\* The statistics of the StateManager (lib/state.ts) and its reads

\* { totalToolsPruned: 0, totalTokensSaved: 0 }
NoStats == [totalToolsPruned |-> 0, totalTokensSaved |-> 0]

\* this.stats.get(sessionID) ?? { totalToolsPruned: 0, totalTokensSaved: 0 }
GetStats(store, sessionID) ==
    IF sessionID \in DOMAIN store THEN store[sessionID] ELSE NoStats

\* this.stats.set(sessionID, updated)
SetStats(store, sessionID, updated) ==
    [s \in DOMAIN store \cup {sessionID} |-> IF s = sessionID THEN updated ELSE store[s]]

\* two invocations of addStats can overlap: the second slot holds the one
\* that is called while another waits. An invocation records where it is, its
\* arguments, the statistics it read and the statistics it returned; a read
\* records the method, the session, and the value it resolved with.
AddSlots == {"first", "second"}

StateManagerGetStatsCreating(sessionID) ==
    /\ rd' = [op |-> "getStats", sessionID |-> sessionID, ids |-> {},
              stats |-> GetStats(stats, sessionID)]
    /\ stats' = SetStats(stats, sessionID, GetStats(stats, sessionID))
    /\ UNCHANGED <<addCalls, nAdd, sumDone, ins, memoryVars>>
    /\ UNCHANGED <<gatewayVars, eventVars, debug, fmt, det, pruneVars, analyzeVars>>

\* StateManager.get(sessionID), called by itself
StateManagerGet(sessionID) ==
    /\ rd' = [op |-> "get", sessionID |-> sessionID, ids |-> StateGet(sessionID),
              stats |-> NoStats]
    /\ UNCHANGED <<stats, addCalls, nAdd, sumDone, ins, memoryVars>>
    /\ UNCHANGED <<gatewayVars, eventVars, debug, fmt, det, pruneVars, analyzeVars>>

\* StateManager.getStats(sessionID), called by itself
StateManagerGetStats(sessionID) ==
    /\ rd' = [op |-> "getStats", sessionID |-> sessionID, ids |-> {},
              stats |-> GetStats(stats, sessionID)]
    /\ UNCHANGED <<stats, addCalls, nAdd, sumDone, ins, memoryVars>>
    /\ UNCHANGED <<gatewayVars, eventVars, debug, fmt, det, pruneVars, analyzeVars>>

\* addStats is called: getStats runs and reads the statistics, and the
\* invocation waits for the promise it awaits
AddStatsCall(i, sessionID, toolsPruned, tokensSaved) ==
    /\ nAdd < MaxAdd
    /\ addCalls[i].pc # "await"
    /\ i = "second" => addCalls["first"].pc = "await"
    /\ nAdd' = nAdd + 1
    /\ addCalls' = [addCalls EXCEPT ![i] =
                       [pc |-> "await", sessionID |-> sessionID,
                        toolsPruned |-> toolsPruned, tokensSaved |-> tokensSaved,
                        current |-> GetStats(stats, sessionID), updated |-> NoStats]]
    /\ UNCHANGED <<stats, sumDone, rd, ins, memoryVars>>
    /\ UNCHANGED <<gatewayVars, eventVars, debug, fmt, det, pruneVars, analyzeVars>>

\* addStats resumes after the await: the sums are computed from what was
\* read, stored, and returned
AddStatsResume(i) ==
    /\ addCalls[i].pc = "await"
    /\ LET c == addCalls[i]
           updated == [totalToolsPruned |-> c.current.totalToolsPruned + c.toolsPruned,
                       totalTokensSaved |-> c.current.totalTokensSaved + c.tokensSaved]
       IN  /\ stats' = SetStats(stats, c.sessionID, updated)
           /\ addCalls' = [addCalls EXCEPT ![i] = [c EXCEPT !.pc = "done", !.updated = updated]]
           /\ sumDone' = [sumDone EXCEPT ![c.sessionID] =
                             [totalToolsPruned |-> @.totalToolsPruned + c.toolsPruned,
                              totalTokensSaved |-> @.totalTokensSaved + c.tokensSaved]]
    /\ UNCHANGED <<nAdd, rd, ins, memoryVars>>
    /\ UNCHANGED <<gatewayVars, eventVars, debug, fmt, det, pruneVars, analyzeVars>>

InitSession(nudge) ==
    /\ stateManager = <<>>
    /\ toolParametersCache = {}
    /\ debug \in BOOLEAN
    /\ req = IdleReq
    /\ nFetch = 0
    /\ nSet = 0
    /\ ev = IdleEv
    /\ janitor = <<>>
    /\ nEvent = 0
    /\ fmt = IdleFmt
    /\ det = IdleDet
    /\ conv = <<>>
    /\ state = NewSessionState(nudge)
    /\ numericIdMap = NewNumericIdMap(FirstNumericId)
    /\ prunable = PrunableListResult(<<>>)
    /\ inv = [i \in PruneSlots |-> IdleInv]
    /\ nPrune = 0
    /\ hist = <<>>
    /\ an = IdleAn
    /\ stats = <<>>
    /\ addCalls = [i \in AddSlots |->
                      [pc |-> "idle", sessionID |-> "none", toolsPruned |-> 0,
                       tokensSaved |-> 0, current |-> NoStats, updated |-> NoStats]]
    /\ nAdd = 0
    /\ sumDone = [s \in Sessions |-> NoStats]
    /\ rd = [op |-> "none", sessionID |-> "none", ids |-> {}, stats |-> NoStats]
    /\ ins = [format |-> "none", nudge |-> FALSE, orig |-> NoInjectBody,
              body |-> NoInjectBody, injection |-> <<>>, result |-> FALSE]
    /\ files = <<>>
    /\ meta = <<>>
    /\ now = 0
    /\ storeCalls = [i \in StoreSlots |->
                        [pc |-> "idle", sessionId |-> "none", summary |-> JsonNull,
                         summaryId |-> NoSummaryId, metadata |-> JsonNull]]
    /\ nStore = 0
    /\ returned = {}
    /\ answer = [session_id |-> "none", summary_id |-> NoSummaryId,
                 isError |-> FALSE, summary |-> JsonNull]

Init == InitSession(0)

\* the plugin configured without debug logging
InitQuiet == Init /\ ~debug

\* a session whose nudge counter has counted, without debug logging
InitPrune == InitSession(1) /\ ~debug

Next ==
    \/ \E b \in Bodies : FetchCall(b)
    \/ req.pc = "done" /\ FetchCall(req.sent)
    \/ \E result \in {"ok", "nodata", "fail"} : FetchListed(result)
    \/ FetchCollect
    \/ \E ok \in BOOLEAN : FetchSaved(ok)
    \/ \E s \in Sessions, ids \in SUBSET StoreIds : StateManagerSet(s, ids)

Spec == Init /\ [][Next]_vars

\* the bodies sent while the event hook is exercised
IdleBodies == {Text(1, JsonChat(ChatA))}

NextIdle ==
    \/ \E s \in Sessions : EventIdle(s)
    \/ EventOther
    \/ \E result \in {"ok", "fail"} : EventChecked(result)
    \/ \E i \in 1..MaxEvent : JanitorResolve(i)
    \/ \E i \in 1..MaxEvent : JanitorReject(i)
    \/ \E b \in IdleBodies : FetchCall(b)
    \/ \E result \in {"ok", "nodata", "fail"} : FetchListed(result)
    \/ FetchCollect
    \/ \E ok \in BOOLEAN : FetchSaved(ok)

SpecIdle == Init /\ [][NextIdle]_vars

NextFormats ==
    \/ \E d \in AnthropicInputs, id \in ToolIds : FmtLoad("anthropic", d, id)
    \/ \E d \in BedrockInputs, id \in ToolIds : FmtLoad("bedrock", d, id)
    \/ \E d \in OpenaiInputs, id \in ToolIds : FmtLoad("openai-responses", d, id)
    \/ \E d \in ChatInputs, id \in ToolIds : FmtLoad("chat", d, id)
    \/ FmtReplace

SpecFormats == Init /\ [][NextFormats]_vars

NextDetect ==
    \/ \E body \in DetectBodies : DetectLoad(body)
    \/ DetectRun

SpecDetect == InitQuiet /\ [][NextDetect]_vars

NextPrune ==
    \/ \E kind \in PartKinds : ToolCallMade(kind)
    \/ ListPrunable
    \/ \E i \in PruneSlots, args \in PruneArgs : PruneCall(i, args)
    \/ \E i \in PruneSlots, ok \in BOOLEAN : PruneMessages(i, ok)
    \/ \E i \in PruneSlots, ok \in BOOLEAN : PruneNotified(i, ok)
    \/ \E i \in PruneSlots, ok \in BOOLEAN : SaveSettled(i, ok)

SpecPrune == InitPrune /\ [][NextPrune]_vars

NextAnalyze ==
    \/ \E kind \in CallKinds : HistAppend(kind)
    \/ AnalyzeConversation

SpecAnalyze == InitQuiet /\ [][NextAnalyze]_vars

NextInject ==
    \/ \E kind \in PartKinds : ToolCallMade(kind)
    \/ \E format \in {"anthropic", "bedrock", "openai-responses"},
          body \in InjectBodies, includeNudge \in BOOLEAN :
          InjectPrunable(format, body, includeNudge)

SpecInject == InitQuiet /\ [][NextInject]_vars

\* summaries of two sessions are stored and read back
NextMemory ==
    \/ ClockTick
    \/ \E i \in StoreSlots, sessionId \in {"s1", "s2"}, summary \in Summaries :
          StoreSummaryCall(i, sessionId, summary)
    \/ \E i \in StoreSlots, ok \in BOOLEAN : StoreSummaryWrite(i, ok)
    \/ \E i \in StoreSlots : StoreMetadataRead(i)
    \/ \E i \in StoreSlots, ok \in BOOLEAN : StoreMetadataWrite(i, ok)
    \/ \E sessionId \in {"s1", "s2"}, time \in 0..MaxClock :
          HandleGetSummary(sessionId, SummaryId(time))

SpecMemory == InitQuiet /\ [][NextMemory]_vars

\* the statistics of two sessions are read and written; addStats is called
\* with <<toolsPruned, tokensSaved>>
NextStats ==
    \/ \E s \in {"s1", "s2"}, ids \in {{}, {Idabc}} : StateManagerSet(s, ids)
    \/ \E s \in {"s1", "s2"} : StateManagerGet(s)
    \/ \E s \in {"s1", "s2"} : StateManagerGetStats(s)
    \/ \E i \in AddSlots, s \in {"s1", "s2"}, a \in {<<1, 10>>, <<2, 5>>} :
          AddStatsCall(i, s, a[1], a[2])
    \/ \E i \in AddSlots : AddStatsResume(i)

SpecStats == InitQuiet /\ [][NextStats]_vars

----------------------------------------------------------------------------
\* Properties of the fetch wrapper (specification Spec)

Done == req.pc = "done"
Orig == JSONParse(req.body).messages
Out == JSONParse(req.sent).messages
StableIds == {p[2] : p \in req.stable}
IsToolResult(m) == m.role = "tool" /\ m.tool_call_id # NoId

\* C1: every invocation of the wrapped fetch calls the original fetch exactly
\* once and never raises; when the body is not a string, cannot be parsed, or a
\* step of the interception fails, the body forwarded is the original body.
C1_FailOpen ==
    /\ ~req.raised
    /\ req.pc \in {"idle", "list", "collect", "save"} => req.calls = 0
    /\ Done => /\ req.calls = 1
               /\ req.outcome \in {"passthrough", "failopen"} => req.sent = req.body
               /\ req.sent \in {req.body, RedactedBody(req.body, req.msgs)}

\* a step failed after the messages were replaced in memory, and the original was sent
C1_Witness ==
    /\ Done /\ req.outcome = "failopen" /\ req.modified
    /\ req.sent = req.body /\ req.calls = 1

\* C2: a body without a recognised messages array is forwarded byte-identical,
\* whatever the sessions' pruned sets contain.
C2_UnrecognisedUntouched ==
    (Done /\ ~JSONParseThrows(req.body) /\ ~JSONParse(req.body).hasMessages)
        => req.sent = req.body

C2_Witness ==
    /\ Done /\ req.body = Text(1, JsonOther) /\ req.sent = req.body
    /\ UnionIn(stateManager) # {}

\* C3: when the interception succeeds, a tool result is redacted if its
\* lowercased identifier is stored for a non-child session throughout the
\* request, and only if it is stored for a non-child session at some moment of
\* the request; without a concurrent StateManager.set the two sets are the union.
C3_RedactedIffInUnion ==
    (Done /\ req.outcome = "ok") =>
        /\ DOMAIN Out = DOMAIN Orig
        /\ \A i \in DOMAIN Orig :
              /\ (IsToolResult(Orig[i]) /\ ToLowerCase(Orig[i].tool_call_id) \in StableIds)
                    => Out[i].content = Marker
              /\ Out[i] # Orig[i]
                    => /\ IsToolResult(Orig[i])
                       /\ ToLowerCase(Orig[i].tool_call_id) \in req.ever
                       /\ Out[i].content = Marker

\* one result redacted, another of the same request left as it was
C3_Witness ==
    /\ Done /\ req.outcome = "ok"
    /\ \E i, j \in DOMAIN Orig :
          /\ IsToolResult(Orig[i]) /\ Orig[i].tool_call_id = IdAbC
          /\ Out[i].content = Marker /\ Orig[i].content # Marker
          /\ Orig[j].role = "tool" /\ Out[j] = Orig[j]
    /\ req.ever = StableIds

SameButContent(a, b) == [a EXCEPT !.content = Marker] = [b EXCEPT !.content = Marker]

\* C4: redaction changes only the content of matched tool results: the number
\* and order of the messages, every unmatched message, and the role and the
\* identifier of a redacted entry are the same in the forwarded body.
C4_OnlyContentChanges ==
    (Done /\ ~JSONParseThrows(req.body)) =>
        /\ ~JSONParseThrows(req.sent)
        /\ [JSONParse(req.sent) EXCEPT !.messages = Orig] = JSONParse(req.body)
        /\ Len(Out) = Len(Orig)
        /\ \A i \in DOMAIN Orig :
              /\ SameButContent(Out[i], Orig[i])
              /\ ~IsMatch(Orig[i], req.all) => Out[i] = Orig[i]
        /\ \A d \in AnthropicInputs, id \in ToolIds :
              LET o == AnthropicReplaceToolOutput(d, id, Marker) IN
              /\ Len(o) = Len(d)
              /\ \A i \in DOMAIN d :
                    /\ o[i].role = d[i].role /\ Len(o[i].content) = Len(d[i].content)
                    /\ \A j \in DOMAIN d[i].content :
                          /\ SameButContent(o[i].content[j], d[i].content[j])
                          /\ ToLowerCase(d[i].content[j].tool_use_id) # ToLowerCase(id)
                                => o[i].content[j] = d[i].content[j]

\* the write's result is redacted, the later read R1 and the assistant's call are not
C4_Witness ==
    /\ Done /\ req.outcome = "ok" /\ req.modified
    /\ Orig = ChatA
    /\ Out[1] = ChatA[1]
    /\ Out[2] = ToolMsg(Idabc, Marker)
    /\ Out[3] = ToolMsg(IdR1, "out-r")

\* C5: an identifier marked prunable in any casing for a non-child session
\* (and still marked when the request is forwarded) is redacted in every
\* request intercepted afterwards whose tool result equals it case-insensitively.
C5_AnyCasingRedacted ==
    (Done /\ req.outcome = "ok") =>
        \A i \in DOMAIN Orig :
            (/\ IsToolResult(Orig[i])
             /\ \E x \in StableIds : ToLowerCase(x) = ToLowerCase(Orig[i].tool_call_id))
              => JSONParse(req.sent).messages[i].content = Marker

\* C6: identifiers stored only for sessions that have a parent link never enter
\* the union, and a tool result pruned only there is forwarded as it was.
C6_ChildIdsExcluded ==
    /\ req.all \subseteq req.ever
    /\ req.got \subseteq req.ever
    /\ Done /\ ~JSONParseThrows(req.body) =>
          \A i \in DOMAIN Orig :
              (IsToolResult(Orig[i]) /\ ToLowerCase(Orig[i].tool_call_id) \notin req.ever)
                  => /\ i \in DOMAIN Out
                     /\ Out[i] = Orig[i]

\* the identifier is stored for the child session alone and the result went out whole
C6_Witness ==
    /\ Done /\ req.outcome = "ok"
    /\ \E i \in DOMAIN Orig :
          /\ IsToolResult(Orig[i])
          /\ ToLowerCase(Orig[i].tool_call_id) \in StateGet("c1")
          /\ ToLowerCase(Orig[i].tool_call_id) \notin req.ever
          /\ Out[i] = Orig[i]

----------------------------------------------------------------------------
\* Properties of the event hook (specification SpecIdle)

IsChild(s) == s \in Sessions /\ ParentID(s) # NoParent

\* C7 as stated: no analysis pass is ever started for a session whose parent
\* link is set.
C7_ChildNeverAnalysed ==
    \A i \in DOMAIN janitor : ~IsChild(janitor[i].session)

\* C7, amended: an idle event for a session whose parent link the host query
\* reports starts no analysis pass; a pass for a child session is started only
\* by an event whose host query failed.
C7_ReportedChildNeverAnalysed ==
    /\ (ev.pc = "done" /\ ev.query = "ok" /\ IsChild(ev.session)) => ev.run = 0
    /\ \A i \in DOMAIN janitor : IsChild(janitor[i].session) => janitor[i].query = "fail"

C7_Witness ==
    /\ ev.pc = "done" /\ ev.query = "ok" /\ IsChild(ev.session)
    /\ ev.run = 0 /\ janitor = <<>>

\* C8: when the host query for the parent link fails the session counts as
\* not-a-child: the analysis pass is started for it and the hook does not fail.
C8_QueryFailureFailsOpen ==
    (ev.pc = "done" /\ ev.query = "fail") =>
        /\ ~ev.raised
        /\ ev.run \in DOMAIN janitor
        /\ janitor[ev.run].session = ev.session

C8_Witness ==
    /\ ev.pc = "done" /\ ev.query = "fail" /\ ev.run \in DOMAIN janitor
    /\ ~IsChild(ev.session)

C9_Step ==
    /\ Len(janitor') > Len(janitor) =>
          /\ Len(janitor') = Len(janitor) + 1
          /\ ev.pc = "check" /\ ev'.pc = "done" /\ ev'.run = Len(janitor')
          /\ janitor'[Len(janitor')].status = "running"
    /\ \A i \in DOMAIN janitor :
          /\ i \in DOMAIN janitor'
          /\ (janitor[i].status = "running" /\ janitor'[i].status = "logged")
                => (ev' = ev /\ req' = req)
          /\ janitor[i].status = "logged" => janitor'[i].status = "logged"
    /\ ~ev'.raised /\ ~req'.raised
    /\ Len(janitor') <= nEvent'

\* C9: the hook returns in the step that starts the analysis pass, while the
\* pass is still running; a pass that fails ends in the log, changes neither
\* the hook's result nor a request, and stays failed: each pass is started by
\* one idle event and none is started again.
C9_FireAndForget == [][C9_Step]_vars

\* the hook has returned, its pass failed afterwards, and a request is under way
C9_Witness ==
    /\ ev.pc = "done" /\ ev.run \in DOMAIN janitor
    /\ janitor[ev.run].status = "logged"
    /\ req.pc \in {"list", "collect"}

----------------------------------------------------------------------------
\* Properties of replaceToolOutput (specification SpecFormats)

\* C10: for every wire format, redacting a call identifier in an array where
\* it is already redacted yields what the first redaction yielded; so does
\* intercepting again a request body that was already redacted.
C10_Idempotent ==
    fmt.times >= 2 => fmt.data = fmt.first

C10_Witness ==
    /\ fmt.times >= 2 /\ fmt.first # fmt.orig /\ fmt.data = fmt.first
    /\ fmt.format = "bedrock"

\* C19 as stated: a tool result whose lowercased identifier has been stored for
\* a non-child session since before the request was intercepted is redacted in
\* every request.
C19_RedactedAfterCommit ==
    (Done /\ ~JSONParseThrows(req.body) /\ JSONParse(req.body).hasMessages)
    => \A i \in DOMAIN Orig :
          (IsToolResult(Orig[i]) /\ ToLowerCase(Orig[i].tool_call_id) \in StableIds)
          => Out[i].content = Marker

\* C19: a tool result that is forwarded unredacted while its lowercased
\* identifier is stored for a non-child session belongs to a request that was
\* in flight when the identifier was committed, or whose interception did not
\* succeed (a step failed, or the host listed no sessions); every request whose
\* interception starts after the commit and succeeds has it redacted.
C19_UnredactedOnlyInFlightOrFailed ==
    (Done /\ ~JSONParseThrows(req.body) /\ JSONParse(req.body).hasMessages)
    => \A i \in DOMAIN Orig :
          (/\ IsToolResult(Orig[i])
           /\ ToLowerCase(Orig[i].tool_call_id) \in UnionIn(stateManager)
           /\ Out[i].content # Marker)
          => \/ req.outcome # "ok"
             \/ ~req.listed
             \/ \A s \in NonChildSessions :
                   <<s, ToLowerCase(Orig[i].tool_call_id)>> \notin req.stable

\* the second request, intercepted after the commit, has the result redacted
C19_Witness ==
    /\ Done /\ req.outcome = "ok" /\ nFetch = 2 /\ nSet = 1
    /\ \E i \in DOMAIN Orig :
          /\ IsToolResult(Orig[i])
          /\ ToLowerCase(Orig[i].tool_call_id) \in StableIds
          /\ Orig[i].content # Marker /\ Out[i].content = Marker

\* the tool invocations of the assistant messages of a request
ToolCallsOf(msgs) ==
    UNION {{<<i, k>> : k \in DOMAIN msgs[i].tool_calls} :
              i \in {j \in DOMAIN msgs : msgs[j].role = "assistant"}}

IsRecordable(tc) == tc.id # NoId /\ tc.hasFunction /\ tc.arguments # ArgsBad

C20_Step ==
    (/\ nFetch' = nFetch + 1
     /\ ~JSONParseThrows(req'.body)
     /\ JSONParse(req'.body).hasMessages
     /\ \A i \in DOMAIN JSONParse(req'.body).messages :
           JSONParse(req'.body).messages[i] # NullMsg)
    => LET msgs == JSONParse(req'.body).messages
           Call(p) == msgs[p[1]].tool_calls[p[2]]
       IN  /\ \A p \in ToolCallsOf(msgs) :
                 IsRecordable(Call(p))
                 => \E e \in toolParametersCache' :
                       e.id = Call(p).id /\ e.tool = Call(p).name
           /\ \A p \in ToolCallsOf(msgs) :
                 (/\ Call(p).arguments = ArgsBad
                  /\ \A q \in ToolCallsOf(msgs) :
                        Call(q).id = Call(p).id => ~IsRecordable(Call(q)))
                 => {e \in toolParametersCache' : e.id = Call(p).id}
                        = {e \in toolParametersCache : e.id = Call(p).id}
           /\ req'.pc = "list" /\ ~req'.raised

\* C20: when a request is intercepted, every tool invocation of its assistant
\* messages with well-formed arguments is in the cache afterwards, also those
\* that come after an invocation with malformed arguments; the malformed one
\* adds nothing; and the interception goes on towards the forward.
C20_MalformedArgumentsSkipped == [][C20_Step]_vars

\* a request with a malformed invocation between two well-formed ones has
\* been forwarded, and the two are cached
C20_Witness ==
    /\ Done /\ req.calls = 1
    /\ req.body = Text(1, JsonChat(ChatA))
    /\ \E e \in toolParametersCache : e.id = Idabc
    /\ \E e \in toolParametersCache : e.id = IdAbC
    /\ ~\E e \in toolParametersCache : e.id = IdR1

----------------------------------------------------------------------------
\* Properties of format detection (specification SpecDetect)

\* the three supported request shapes
IsAnthropicShape(body) ==
    /\ body.system \in {"string", "array"} /\ body.messages = "array"
    /\ ~body.inferenceConfig /\ body.input = "undefined"

IsBedrockShape(body) ==
    /\ body.system = "array" /\ body.messages = "array"
    /\ body.inferenceConfig /\ body.input = "undefined"

IsResponsesShape(body) ==
    /\ body.input = "array" /\ body.messages = "undefined"
    /\ body.system = "undefined" /\ ~body.inferenceConfig

\* C11: a well-formed body of one of the three supported shapes is claimed by
\* exactly one descriptor (no such body is claimed by two, or by none).
C11_ExactlyOneDescriptor ==
    (/\ det.pc = "detected"
     /\ IsAnthropicShape(det.body) \/ IsBedrockShape(det.body) \/ IsResponsesShape(det.body))
    => Cardinality(det.claimed) = 1

\* out is msgs with the content of every tool result whose lowercased id is
\* in all replaced by the marker, and nothing else changed
EveryMatchRedacted(msgs, out, all) ==
    /\ Len(out) = Len(msgs)
    /\ \A i \in DOMAIN msgs :
          out[i] = IF /\ msgs[i].role = "tool"
                      /\ msgs[i].tool_call_id # NoId
                      /\ ToLowerCase(msgs[i].tool_call_id) \in all
                   THEN [msgs[i] EXCEPT !.content = Marker]
                   ELSE msgs[i]

\* C25: the body handed to the original fetch is the original body string, or
\* the serialization of the parsed body whose messages have every tool result
\* of a collected pruned id redacted; this also holds when saving the context
\* fails after the messages were replaced in memory, where the original string
\* is forwarded.
C25_OriginalOrFullyRedacted ==
    Done
    => \/ req.sent = req.body
       \/ /\ req.body.kind = "json"
          /\ req.sent.kind = "json"
          /\ req.sent = JSONStringify(JSONParse(req.sent))
          /\ [JSONParse(req.sent) EXCEPT !.messages = <<>>]
                 = [JSONParse(req.body) EXCEPT !.messages = <<>>]
          /\ EveryMatchRedacted(Orig, Out, req.all)

\* two tool results were replaced in memory, then saving the context failed
\* and the original string was forwarded
C25_Witness ==
    /\ Done
    /\ req.modified
    /\ req.outcome = "failopen"
    /\ req.sent = req.body
    /\ Cardinality({i \in DOMAIN req.msgs : req.msgs[i].content = Marker}) = 2

----------------------------------------------------------------------------
\* Properties of the prune tool and of the listing (specification SpecPrune)

\* the inputs the tool must reject: no ids, a first element that is not a
\* reason, or nothing after the reason that parses as a number
InvalidArgs(args) ==
    \/ ~args.defined
    \/ args.ids = <<>>
    \/ Head(args.ids) \notin {Completion, Noise, Consolidation}
    \/ \A k \in 2..Len(args.ids) : ParseInt(args.ids[k]).nan

C12_Step ==
    /\ \A i \in PruneSlots :
          (inv'[i].pc # "idle" /\ InvalidArgs(inv'[i].args))
          => /\ inv'[i].pc = "done"
             /\ inv'[i].result \in Rejections
             /\ inv'[i].save = "none"
             /\ inv'[i].pruneToolIds = <<>>
    /\ (/\ nPrune' = nPrune + 1
        /\ \A i \in PruneSlots : inv'[i] # inv[i] => InvalidArgs(inv'[i].args))
       => state' = state

\* C12: a call of the prune tool with an empty id list, with a first element
\* that is not a reason, or with no parsable numeric id after the reason
\* returns a rejection message at once; the call leaves the session state
\* (prune list, token counters, nudge counter) as it was and the invocation
\* starts no save and resolves nothing afterwards.
C12_InvalidInputRejected == [][C12_Step]_vars

\* each kind of rejection is returned while the session state holds something
\* to lose: a counted nudge and tokens of an overlapping invocation
C12_Witness ==
    /\ state.nudgeCounter = 1
    /\ state.pruneTokenCounter > 0
    /\ inv["second"].pc = "done"
    /\ inv["second"].result = "No numeric IDs provided"

\* the number the mapping returns for a call id, in a given mapping
NumericIdIn(map, id) == GetOrCreateNumericId(map, ToolSession, id).numericId

C13_Step ==
    /\ \A e \in numericIdMap.ids : NumericIdIn(numericIdMap', e.id) = e.n
    /\ \A e1, e2 \in numericIdMap'.ids : e1.n = e2.n => e1.id = e2.id
    /\ \A k \in DOMAIN prunable'.numericIds :
          \E e \in numericIdMap'.ids : e.n = prunable'.numericIds[k]

C14_ListedNumberResolvesToItsCall ==
    \A e \in numericIdMap.ids :
        GetPruneToolIds(<<e.n>>, BuildToolIdList(conv), state.toolParameters, ProtectedTools)
            = <<e.id>>

\* the position of a call in the conversation
ToolOfCall(id) == (CHOOSE j \in DOMAIN conv : conv[j].callID = id)

\* C15: no call of a protected tool is in the prunable listing or in the
\* session's prune list, whatever numbers the prune tool is given.
C15_ProtectedNeverPrunable ==
    /\ \A k \in DOMAIN prunable.list : prunable.list[k].tool \notin ProtectedTools
    /\ \A k \in DOMAIN state.toolIds :
          conv[ToolOfCall(state.toolIds[k])].tool \notin ProtectedTools

C21_Step ==
    \A i \in PruneSlots :
        /\ (inv[i].result # "pruned" /\ inv'[i].result = "pruned")
           => inv'[i].pc = "done" /\ inv'[i].save = "pending"
        /\ (inv[i].save = "pending" /\ inv'[i].save # "pending")
           => /\ inv'[i].save \in {"saved", "logged"}
              /\ inv'[i].result = "pruned"
              /\ inv'[i].pc = "done"
              /\ state' = state

\* C21: the prune tool returns its result in the step that starts the save,
\* while the save is still pending; when the save settles afterwards, with
\* success or with a failure that is logged, the returned result and the
\* in-memory session state are what they were.
C21_SaveNeitherAwaitedNorRolledBack == [][C21_Step]_vars

\* a save has failed after its invocation pruned a call and returned
C21_Witness ==
    \E i \in PruneSlots :
        /\ inv[i].save = "logged"
        /\ inv[i].result = "pruned"
        /\ inv[i].pruneToolIds # <<>>
        /\ state.toolIds # <<>>
        /\ state.totalPruneTokens > 0

\* the invocation in slot i resolves its numeric ids in this step
Resolves(i) == inv[i].pc = "messages" /\ inv'[i].pc = "notify"

C27_Step ==
    /\ state'.totalPruneTokens + state'.pruneTokenCounter
          = state.totalPruneTokens + state.pruneTokenCounter
            + (IF \E i \in PruneSlots : Resolves(i)
               THEN CalculateTokensSaved(conv,
                        inv'[CHOOSE i \in PruneSlots : Resolves(i)].pruneToolIds)
               ELSE 0)
    /\ \A i \in PruneSlots :
          (inv[i].result # "pruned" /\ inv'[i].result = "pruned")
          => /\ state'.pruneTokenCounter = 0
             /\ state'.totalPruneTokens = state.totalPruneTokens + state.pruneTokenCounter

C28_PruneListHasNoDuplicates ==
    \A j, k \in DOMAIN state.toolIds : j # k => state.toolIds[j] # state.toolIds[k]

\* a numeric id refers to a tool call of the conversation
InRange(n) == n >= 0 /\ n < Len(BuildToolIdList(conv))

C29_Step ==
    \A i \in PruneSlots :
        Resolves(i)
        => LET numericToolIds == inv[i].numericToolIds
               toolIdList == BuildToolIdList(conv)
               pruned == inv'[i].pruneToolIds
           IN  /\ state'.toolIds = state.toolIds \o pruned
               /\ \A k \in DOMAIN pruned :
                     \E j \in DOMAIN numericToolIds :
                         /\ InRange(numericToolIds[j])
                         /\ pruned[k] = toolIdList[numericToolIds[j] + 1]
               /\ \A j \in DOMAIN numericToolIds :
                     (/\ InRange(numericToolIds[j])
                      /\ \A e \in state.toolParameters :
                            e.id = toolIdList[numericToolIds[j] + 1]
                            => e.tool \notin ProtectedTools)
                     => \E k \in DOMAIN pruned : pruned[k] = toolIdList[numericToolIds[j] + 1]
               /\ (\A j \in DOMAIN numericToolIds : ~InRange(numericToolIds[j]))
                  => state'.toolIds = state.toolIds

\* C29: when a prune action resolves its numeric ids, an id that is negative
\* or not smaller than the number of tool calls of the conversation resolves
\* to nothing: everything the action appends to the prune list is the call at
\* an in-range id it was given, an action with no in-range id appends nothing,
\* and every in-range id it was given is appended unless the call is skipped
\* as a call of a protected tool.
C29_OutOfRangeIdsResolveToNothing == [][C29_Step]_vars

\* an action given ids 0 and 1 for a conversation of one tool call has pruned
\* that call only
C29_Witness ==
    \E i \in PruneSlots :
        /\ inv[i].numericToolIds = <<0, 1>>
        /\ Len(conv) = 1
        /\ inv[i].pruneToolIds = <<CallIds[1]>>
        /\ state.toolIds = <<CallIds[1]>>

----------------------------------------------------------------------------
\* Properties of the strategies (specification SpecAnalyze)

\* two invocations are identical: same tool, same parameters up to key order
SameCall(c1, c2) ==
    /\ c1.tool = c2.tool
    /\ \A k \in DOMAIN c1.parameters : \E l \in DOMAIN c2.parameters :
          c1.parameters[k] = c2.parameters[l]
    /\ \A l \in DOMAIN c2.parameters : \E k \in DOMAIN c1.parameters :
          c1.parameters[k] = c2.parameters[l]

HasLaterTwin(i) == \E j \in DOMAIN hist : j > i /\ SameCall(hist[i], hist[j])

SamePath(c1, c2) == PathOf(c1) = PathOf(c2)

IsLaterRead(i, j) == j > i /\ hist[j].tool \in ReadTools /\ SamePath(hist[i], hist[j])

\* the conversation without the reads of the path of invocation i that follow it
WithoutLaterReads(i) ==
    SelectSeq(hist, LAMBDA c :
        ~(\E j \in DOMAIN hist : hist[j].id = c.id /\ IsLaterRead(i, j)))

\* C17: supersede-writes marks only writes that a chronologically later read
\* of the same path follows; on the history without those later reads the
\* write is not a candidate; and no read is ever a candidate of it.
C17_SupersedeNeedsLaterRead ==
    an.pc = "done"
    => \A i \in DOMAIN hist :
          /\ hist[i].id \in an.supersedeWrites
             => /\ hist[i].tool \in WriteTools
                /\ \E j \in DOMAIN hist : IsLaterRead(i, j)
                /\ hist[i].id \notin
                      SupersedeWritesCandidates(WithoutLaterReads(i), StrategyProtectedTools)
          /\ hist[i].tool \in ReadTools => hist[i].id \notin an.supersedeWrites

\* a write is marked although a read of the same path also precedes it
C17_Witness ==
    /\ an.pc = "done"
    /\ Len(hist) = 3
    /\ hist[1].tool \in ReadTools /\ hist[2].tool \in WriteTools /\ hist[3].tool \in ReadTools
    /\ SamePath(hist[1], hist[2])
    /\ an.supersedeWrites = {hist[2].id}

\* C18: after the strategies have run, the session state they were handed
\* (prunable set, token counter) is as it was created.
C18_StrategiesLeaveStateUnchanged ==
    an.pc = "done" => an.state = NewAnalysisState

----------------------------------------------------------------------------
\* Properties of the StateManager's reads and statistics (specification SpecStats)

C22_Step ==
    rd' # rd
    => /\ stateManager' = stateManager
       /\ stats' = stats
       /\ rd'.op \in {"get", "getStats"}
       /\ (rd'.op = "get" /\ rd'.sessionID \notin DOMAIN stateManager) => rd'.ids = {}
       /\ (rd'.op = "getStats" /\ rd'.sessionID \notin DOMAIN stats)
          => rd'.stats = [totalToolsPruned |-> 0, totalTokensSaved |-> 0]

\* C22: get and getStats of a session the StateManager holds nothing for
\* resolve with the empty list and with zero counters, and a read adds no
\* entry for the session to the stored ids or to the stored statistics.
C22_ReadOfUnknownSessionIsEmpty == [][C22_Step]_vars

\* the statistics of a session without any entry have been read while another
\* session has pruned ids and counted statistics
C22_Witness ==
    /\ rd.op = "getStats"
    /\ rd.sessionID = "s2"
    /\ "s2" \notin DOMAIN stats
    /\ "s2" \notin DOMAIN stateManager
    /\ "s1" \in DOMAIN stats
    /\ "s1" \in DOMAIN stateManager
    /\ stateManager["s1"] # {}

\* C26: at every moment the stored statistics of every session are the sums
\* of the arguments of the addStats calls for that session that have
\* returned, also when calls overlap; a session no call named has none.
C26_AddStatsAccumulates ==
    \A s \in Sessions : GetStats(stats, s) = sumDone[s]

----------------------------------------------------------------------------
\* Properties of the system injection (specification SpecInject)

\* no unpruned call of the session is a candidate of the listing: each one
\* lacks cached metadata or is a call of a protected tool
ZeroCandidates ==
    \A j \in DOMAIN conv :
        \/ \E k \in DOMAIN state.toolIds : state.toolIds[k] = conv[j].callID
        \/ \A e \in state.toolParameters :
              e.id = conv[j].callID => e.tool \in ProtectedTools

C23_Step ==
    (ZeroCandidates /\ conv' = conv)
    => /\ prunable'.list = <<>>
       /\ prunable'.numericIds = <<>>
       /\ numericIdMap' = numericIdMap
       /\ ins'.injection = <<>>
       /\ ins'.result = FALSE
       /\ ins'.body = ins'.orig

\* C23: when a request is prepared while the session has no prunable
\* candidate (no unpruned call, or only calls without cached metadata or of
\* protected tools), the listing is empty and has no numeric ids, no number
\* is given out, the injection is the empty string with and without the
\* nudge, and the descriptor's injectSystemMessage returns false and leaves
\* the body as it was.
C23_NoCandidatesNothingInjected == [][C23_Step]_vars

\* a body with instructions went through the injection with the nudge on,
\* for a session whose calls are an uncached one and a protected one
C23_Witness ==
    /\ ins.format = "openai-responses"
    /\ ins.nudge
    /\ ins.orig.instructions.kind = "string"
    /\ ins.result = FALSE
    /\ ZeroCandidates
    /\ Len(conv) = 2
    /\ \E j \in DOMAIN conv : MetadataOf(state.toolParameters, conv[j].callID) = {}
    /\ \E e \in state.toolParameters : e.tool \in ProtectedTools

----------------------------------------------------------------------------
\* Properties of the context memory server (specification SpecMemory)

\* C24: get_summary, given the session id and the summary_id a store_summary
\* call returned, answers with the summary that call was given, whatever
\* other store_summary calls were made.
C24_GetReturnsWhatWasStored ==
    \A r \in returned : GetSummary(r.session_id, r.summary_id) = r.summary

\* the summary files present for a session
SummaryFilesOf(sessionId) == {f \in DOMAIN files : f[1] = sessionId}

\* C30: whenever no store_summary call for a session is in progress, the
\* total_compactions of the session's metadata (0 when there is no metadata)
\* is the number of summary files the session has.
C30_CompactionsCountSummaries ==
    \A sessionId \in {"s1", "s2"} :
        (\A i \in StoreSlots :
            storeCalls[i].sessionId = sessionId
            => storeCalls[i].pc \in {"idle", "done", "failed"})
        => Cardinality(SummaryFilesOf(sessionId))
               = IF sessionId \in DOMAIN meta
                 THEN JSONParse(meta[sessionId]).total_compactions
                 ELSE 0

====
